---- MODULE Spec2Model ----
(***************************************************************************)
(* A model of remove_acc.py (the FASTA accession filter) of                *)
(* kaiju_data_tools.                                                       *)
(*                                                                         *)
(* Text is modelled as a sequence of one-character strings.  A file is the *)
(* sequence of its characters; Python's text-mode iteration splits it into *)
(* lines that keep their "\n" terminator (ReadLines).                      *)
(***************************************************************************)
EXTENDS Integers, Sequences, FiniteSets, TLC

----------------------------------------------------------------------------
(* Bounds of the model. *)

\* the longest input FASTA file, in characters
MaxChars == 6
\* the longest accession-list file, in characters
MaxAccChars == 4
\* the longest FASTA file that is filtered twice in one process, in characters
MaxRepeatChars == 5
\* the longest FASTA file of the specification with fairness, in characters
MaxLiveChars == 4
\* the longest taxon file, in characters
MaxTaxonChars == 5
\* the longest file the external command writes, in characters
MaxOutChars == 3
\* the longest single header line of the header-only specification
MaxHeaderLen == 4

\* the characters input FASTA files are drawn from
FastaAlphabet == {">", " ", "A", "\n"}
\* the characters accession-list files are drawn from
AccAlphabet == {"#", " ", "A", "\n"}
\* the characters single header lines are drawn from
HeaderAlphabet == {">", " ", "A", "a"}
\* the characters taxon files are drawn from
TaxonAlphabet == {"1", "\t", " ", "\n"}
\* the characters the output of the external command is drawn from
OutAlphabet == {">", "A", "\\", "n"}

\* every text over alphabet a of at most n characters
Texts(a, n) == UNION {[1..k -> a] : k \in 0..n}

----------------------------------------------------------------------------
(* Python string operations, as the source uses them. *)

\* the characters str.strip() and str.split() treat as whitespace
Whitespace == {" ", "\t", "\n", "\r"}

\* Python's None, a value no line equals (a line holds single characters)
None == <<"None">>

\* ''.join(sequence)
RECURSIVE Join(_)
Join(sequence) ==
    IF sequence = <<>> THEN <<>> ELSE Head(sequence) \o Join(Tail(sequence))

\* line.rstrip(chars): drop every trailing character that is in chars
RECURSIVE RStrip(_, _)
RStrip(line, chars) ==
    IF line # <<>> /\ line[Len(line)] \in chars
    THEN RStrip(SubSeq(line, 1, Len(line) - 1), chars)
    ELSE line

\* line.lstrip(chars)
RECURSIVE LStrip(_, _)
LStrip(line, chars) ==
    IF line # <<>> /\ Head(line) \in chars THEN LStrip(Tail(line), chars) ELSE line

\* line.strip(): surrounding whitespace removed
Strip(line) == LStrip(RStrip(line, Whitespace), Whitespace)

\* line.startswith(c) for a one-character c
StartsWith(line, c) == line # <<>> /\ Head(line) = c

\* the longest prefix of line holding no whitespace
RECURSIVE Token(_)
Token(line) ==
    IF line = <<>> \/ Head(line) \in Whitespace THEN <<>>
    ELSE <<Head(line)>> \o Token(Tail(line))

\* line.split(): the maximal runs of non-whitespace characters, in order
RECURSIVE Split(_)
Split(line) ==
    LET rest == LStrip(line, Whitespace)
        tok == Token(rest)
    IN  IF rest = <<>> THEN <<>>
        ELSE <<tok>> \o Split(SubSeq(rest, Len(tok) + 1, Len(rest)))

\* iterating a text-mode file: the lines of text, each with its terminator,
\* the last one without when the text does not end in a newline
RECURSIVE ReadLines(_)
ReadLines(text) ==
    IF text = <<>> THEN <<>>
    ELSE LET ends == {i \in 1..Len(text) : text[i] = "\n"}
             n == IF ends = {} THEN Len(text)
                  ELSE CHOOSE i \in ends : \A j \in ends : i <= j
         IN  <<SubSeq(text, 1, n)>> \o ReadLines(SubSeq(text, n + 1, Len(text)))

----------------------------------------------------------------------------
(* remove_acc.py *)

\* AddAccessions had the comment marker been looked for before stripping
RECURSIVE AddAccessionsUnstripped(_, _)
AddAccessionsUnstripped(lines, accessions) ==
    IF lines = <<>> THEN accessions
    ELSE LET line == Strip(Head(lines))
         IN  AddAccessionsUnstripped(Tail(lines),
                 IF line # <<>> /\ ~StartsWith(Head(lines), "#")
                 THEN accessions \cup {line} ELSE accessions)

\* read_accessions_to_remove over the lines still to read, from the set so far
RECURSIVE AddAccessions(_, _)
AddAccessions(lines, accessions) ==
    IF lines = <<>> THEN accessions
    ELSE LET line == Strip(Head(lines))
         IN  AddAccessions(Tail(lines),
                 IF line # <<>> /\ ~StartsWith(line, "#")
                 THEN accessions \cup {line} ELSE accessions)

\* read_accessions_to_remove(accession_file), given the file's text
read_accessions_to_remove(text) == AddAccessions(ReadLines(text), {})

\* the accession of a header line: the first word after '>'
Accession(line) ==
    LET parts == Split(line)
    IN  IF Len(parts) > 0 /\ Len(parts[1]) > 1 THEN Tail(parts[1]) ELSE <<>>

\* SkipHeader had the header not been split into words: everything after
\* the marker is looked up
SkipHeaderWhole(line, accessions) == Tail(line) \in accessions

\* SkipHeader had an entry matched any accession it is a prefix of
SkipHeaderPrefix(line, accessions) ==
    \E a \in accessions :
        /\ Len(a) <= Len(Accession(line))
        /\ SubSeq(Accession(line), 1, Len(a)) = a

\* SkipHeader had a header without an accession been skipped as malformed
SkipHeaderEmpty(line, accessions) ==
    Accession(line) = <<>> \/ Accession(line) \in accessions

\* whether a record with this header is to be skipped
SkipHeader(line, accessions) == Accession(line) \in accessions

\* StripEol had the line endings been left on the line
StripEolNone(line) == line

\* the line as the loop body sees it, line endings stripped
StripEol(line) == RStrip(line, {"\n", "\r"})

\* '\n'.join(sequence)
RECURSIVE JoinLines(_)
JoinLines(sequence) ==
    IF sequence = <<>> THEN <<>>
    ELSE IF Len(sequence) = 1 THEN Head(sequence)
    ELSE Head(sequence) \o <<"\n">> \o JoinLines(Tail(sequence))

\* write_sequence had the sequence lines been joined with newlines
write_sequence_wrapped(header, sequence, out) ==
    (out \o header \o <<"\n">>) \o JoinLines(sequence) \o <<"\n">>

\* write_sequence(header, sequence, out_file): the text of out_file afterwards
write_sequence(header, sequence, out) ==
    (out \o header \o <<"\n">>) \o Join(sequence) \o <<"\n">>

----------------------------------------------------------------------------
(* kaiju_nr_prepare.py *)

\* line.split(sep): the fields between the occurrences of sep
RECURSIVE SplitOn(_, _)
SplitOn(line, sep) ==
    LET at == {i \in 1..Len(line) : line[i] = sep}
    IN  IF at = {} THEN <<line>>
        ELSE LET k == CHOOSE i \in at : \A j \in at : i <= j
             IN  <<SubSeq(line, 1, k - 1)>> \o SplitOn(SubSeq(line, k + 1, Len(line)), sep)

\* sep.join(fields)
RECURSIVE JoinWith(_, _)
JoinWith(fields, sep) ==
    IF fields = <<>> THEN <<>>
    ELSE IF Len(fields) = 1 THEN Head(fields)
    ELSE Head(fields) \o <<sep>> \o JoinWith(Tail(fields), sep)

\* lines 34-40: the first field of each line that is not empty once stripped
RECURSIVE FirstFields(_)
FirstFields(lines) ==
    IF lines = <<>> THEN <<>>
    ELSE LET line == Strip(Head(lines))
         IN  (IF line # <<>> THEN <<SplitOn(line, "\t")[1]>> ELSE <<>>)
             \o FirstFields(Tail(lines))

\* read_taxon_ids(input_file), lines 32-43, on the text of the file
read_taxon_ids(text) == JoinWith(FirstFields(ReadLines(text)), ",")

\* line 108: content.replace('\\n', '\n'), from left to right
RECURSIVE ReplaceLiteralNewlines(_)
ReplaceLiteralNewlines(content) ==
    IF Len(content) < 2 THEN content
    ELSE IF content[1] = "\\" /\ content[2] = "n"
         THEN <<"\n">> \o ReplaceLiteralNewlines(SubSeq(content, 3, Len(content)))
         ELSE <<content[1]>> \o ReplaceLiteralNewlines(Tail(content))

----------------------------------------------------------------------------
(* The state of one run of the tool. *)

VARIABLES
    pc,                   \* where the run is
    output_fasta,         \* args.output: "-" or a path
    accession_text,       \* the text of the accession-list file, once read
    accessions_to_remove, \* the set read_accessions_to_remove returned
    fasta_text,           \* the text of the input FASTA file, once opened
    in_state,             \* in_file: "unopened", "open" or "closed"
    in_file,              \* the lines of in_file not yet iterated over
    out_file,             \* the output sink: "unopened", "open" or "closed"
    out_closes,           \* how often out_file.close() has been called
    out_text,             \* the text written to the output sink
    removed_count,
    kept_count,
    current_header,
    current_sequence,
    skip_current,
    exc,                  \* the path the pending exception names, or "none"
    stderr,               \* what was printed to sys.stderr, in order
    exit_status,          \* the exit status of the process, -1 while running
    run,                  \* 1 in the first filter pass, 2 in a pass over its output
    first,                \* the text and counts of the first pass, once re-filtered
    taxon_text,           \* kaiju_nr_prepare: the text of the taxon-list file
    taxon_ids,            \* kaiju_nr_prepare: what read_taxon_ids returned
    blast,                \* kaiju_nr_prepare: how the blastdbcmd call went
    intermediate_text,    \* kaiju_nr_prepare: the text blastdbcmd wrote
    final_text            \* kaiju_nr_prepare: the text of the final FASTA file

\* the state of kaiju_nr_prepare.py
extractor == <<taxon_text, taxon_ids, blast, intermediate_text, final_text>>

vars == <<pc, output_fasta, accession_text, accessions_to_remove, fasta_text,
          in_state, in_file, out_file, out_closes,
          out_text, removed_count, kept_count, current_header, current_sequence,
          skip_current, exc, stderr, exit_status, run, first, extractor>>

locals == <<removed_count, kept_count, current_header, current_sequence, skip_current>>

\* the input FASTA files of the model
FastaFiles == Texts(FastaAlphabet, MaxChars)
\* input files of one header line and nothing else
HeaderFiles == {<<">">> \o t : t \in Texts(HeaderAlphabet, MaxHeaderLen - 1)}
\* the FASTA files of a pass that is repeated
RepeatFiles == Texts(FastaAlphabet, MaxRepeatChars)
\* the FASTA files of a pass that is followed to its end
LiveFiles == Texts(FastaAlphabet, MaxLiveChars)
\* the taxon files of the model
TaxonFiles == Texts(TaxonAlphabet, MaxTaxonChars)
\* the taxon files of a whole extraction
ExtractTaxonFiles == {<<>>, <<"1", "\n">>, <<"1", "\t", "1", "\n", "1", "\n">>}
\* the files the external command writes
OutFiles == Texts(OutAlphabet, MaxOutChars)
\* the accession-list files of the model
AccFiles == Texts(AccAlphabet, MaxAccChars)
\* the accession lists the filter runs are made with
FilterAccFiles == {<<>>, <<"#", "A", "\n">>, <<"A", "\n">>,
                   <<" ", "A", " ", "\n", "A", "A", "\n">>}
\* the accession lists the header-only runs are made with
HeaderAccFiles == {<<"A", "\n">>, <<"a", "\n", "#", "\n", "\n">>,
                   <<"A", "a", "\n">>, <<"A", " ", "A", "\n">>}

Init ==
    /\ pc = "main"
    /\ output_fasta \in {"-", "out.fasta"}
    /\ accession_text = <<>>
    /\ accessions_to_remove = {}
    /\ fasta_text = <<>>
    /\ in_state = "unopened"
    /\ in_file = <<>>
    /\ out_file = "unopened"
    /\ out_closes = 0
    /\ out_text = <<>>
    /\ removed_count = 0
    /\ kept_count = 0
    /\ current_header = None
    /\ current_sequence = <<>>
    /\ skip_current = FALSE
    /\ exc = "none"
    /\ stderr = <<>>
    /\ exit_status = -1
    /\ run = 1
    /\ first = <<>>
    /\ taxon_text = <<>>
    /\ taxon_ids = None
    /\ blast = "none"
    /\ intermediate_text = <<>>
    /\ final_text = None

----------------------------------------------------------------------------
(* main, lines 135-143 *)

\* an exception no handler catches ends the process: traceback, status 1
Uncaught(path) ==
    /\ pc' = "exit"
    /\ exit_status' = 1
    /\ stderr' = Append(stderr, <<"Traceback", path>>)
    /\ exc' = "none"

\* lines 138-140: the accession list is read and its size reported
MainLoad(files) ==
    /\ pc = "main"
    /\ \E text \in files :
        /\ accession_text' = text
        /\ accessions_to_remove' = read_accessions_to_remove(text)
        /\ stderr' = Append(stderr, <<"Loaded", Cardinality(accessions_to_remove')>>)
    /\ pc' = "process_fasta"
    /\ UNCHANGED <<output_fasta, fasta_text, in_state, in_file, out_file, out_closes, out_text,
                   locals, exc, exit_status, run, first, extractor>>

\* line 25: the accession list cannot be opened
MainLoadFail ==
    /\ pc = "main"
    /\ Uncaught("accession_file")
    /\ UNCHANGED <<output_fasta, accession_text, accessions_to_remove, fasta_text,
                   in_state, in_file, out_file, out_closes, out_text, locals, run, first, extractor>>

----------------------------------------------------------------------------
(* process_fasta, lines 33-101 *)

\* OpenOutput had the counters and the record slot outlived the call
OpenOutputStale ==
    /\ pc = "process_fasta"
    /\ out_file' = "open"
    /\ out_closes' = 0
    /\ out_text' = <<>>
    /\ pc' = "open_in"
    /\ UNCHANGED <<output_fasta, accession_text, accessions_to_remove, fasta_text,
                   in_state, in_file, locals, exc, stderr, exit_status, run, first, extractor>>

\* lines 42-57: the locals are initialised and the output sink is determined
OpenOutput ==
    /\ pc = "process_fasta"
    /\ removed_count' = 0
    /\ kept_count' = 0
    /\ current_header' = None
    /\ current_sequence' = <<>>
    /\ skip_current' = FALSE
    /\ out_file' = "open"
    /\ out_closes' = 0
    /\ out_text' = <<>>
    /\ pc' = "open_in"
    /\ UNCHANGED <<output_fasta, accession_text, accessions_to_remove, fasta_text,
                   in_state, in_file, exc, stderr, exit_status, run, first, extractor>>

\* line 57: open(output_fasta, 'w') raises, outside the try block
OpenOutputFail ==
    /\ pc = "process_fasta"
    /\ output_fasta # "-"
    /\ Uncaught(output_fasta)
    /\ UNCHANGED <<output_fasta, accession_text, accessions_to_remove, fasta_text,
                   in_state, in_file, out_file, out_closes, out_text, locals, run, first, extractor>>

\* line 60: the input file is opened; its lines are iterated from the first
OpenInput(files) ==
    /\ pc = "open_in"
    /\ \E text \in files :
        /\ fasta_text' = text
        /\ in_file' = ReadLines(text)
    /\ in_state' = "open"
    /\ pc' = "scan"
    /\ UNCHANGED <<output_fasta, accession_text, accessions_to_remove, out_file, out_closes,
                   out_text, locals, exc, stderr, exit_status, run, first, extractor>>

\* line 60: open(input_fasta, 'r') raises, inside the try block
OpenInputFail ==
    /\ pc = "open_in"
    /\ exc' = "input_fasta"
    /\ pc' = "finally"
    /\ UNCHANGED <<output_fasta, accession_text, accessions_to_remove, fasta_text,
                   in_state, in_file, out_file, out_closes, out_text, locals, stderr,
                   exit_status, run, first, extractor>>

\* lines 66-71 and 88-93: the text of the sink once the current record,
\* if there is one, has been processed
FinalizeText ==
    IF current_header # None /\ ~skip_current
    THEN write_sequence(current_header, current_sequence, out_text)
    ELSE out_text

\* lines 69 and 91
FinalizeKept ==
    IF current_header # None /\ ~skip_current THEN kept_count + 1 ELSE kept_count

\* lines 71 and 93
FinalizeRemoved ==
    IF current_header # None /\ skip_current THEN removed_count + 1 ELSE removed_count

\* ReadHeader had the skip flag of the new header been set before the
\* previous record is processed
ReadHeaderFlagFirst ==
    /\ pc = "scan"
    /\ in_file # <<>>
    /\ LET line == StripEol(Head(in_file))
           skip == SkipHeader(line, accessions_to_remove)
       IN  /\ StartsWith(line, ">")
           /\ out_text' = IF current_header # None /\ ~skip
                           THEN write_sequence(current_header, current_sequence, out_text)
                           ELSE out_text
           /\ kept_count' = FinalizeKept
           /\ removed_count' = FinalizeRemoved
           /\ current_header' = line
           /\ current_sequence' = <<>>
           /\ skip_current' = skip
    /\ in_file' = Tail(in_file)
    /\ UNCHANGED <<pc, output_fasta, accession_text, accessions_to_remove, fasta_text,
                   in_state, out_file, out_closes, exc, stderr, exit_status, run, first, extractor>>

\* ReadHeader had the sequence lines of the previous record been left in
\* the buffer
ReadHeaderNoClear ==
    /\ pc = "scan"
    /\ in_file # <<>>
    /\ LET line == StripEol(Head(in_file))
       IN  /\ StartsWith(line, ">")
           /\ out_text' = FinalizeText
           /\ kept_count' = FinalizeKept
           /\ removed_count' = FinalizeRemoved
           /\ current_header' = line
           /\ current_sequence' = current_sequence
           /\ skip_current' = SkipHeader(line, accessions_to_remove)
    /\ in_file' = Tail(in_file)
    /\ UNCHANGED <<pc, output_fasta, accession_text, accessions_to_remove, fasta_text,
                   in_state, out_file, out_closes, exc, stderr, exit_status, run,
                   first, extractor>>

\* ReadHeader had a matched accession been discarded from the set
ReadHeaderConsumes ==
    /\ pc = "scan"
    /\ in_file # <<>>
    /\ LET line == StripEol(Head(in_file))
       IN  /\ StartsWith(line, ">")
           /\ out_text' = FinalizeText
           /\ kept_count' = FinalizeKept
           /\ removed_count' = FinalizeRemoved
           /\ current_header' = line
           /\ current_sequence' = <<>>
           /\ skip_current' = SkipHeader(line, accessions_to_remove)
           /\ accessions_to_remove' = accessions_to_remove \ {Accession(line)}
    /\ in_file' = Tail(in_file)
    /\ UNCHANGED <<pc, output_fasta, accession_text, fasta_text,
                   in_state, out_file, out_closes, exc, stderr, exit_status, run, first, extractor>>

\* lines 61-81: the next line is a header
ReadHeader ==
    /\ pc = "scan"
    /\ in_file # <<>>
    /\ LET line == StripEol(Head(in_file))
       IN  /\ StartsWith(line, ">")
           /\ out_text' = FinalizeText
           /\ kept_count' = FinalizeKept
           /\ removed_count' = FinalizeRemoved
           /\ current_header' = line
           /\ current_sequence' = <<>>
           /\ skip_current' = SkipHeader(line, accessions_to_remove)
    /\ in_file' = Tail(in_file)
    /\ UNCHANGED <<pc, output_fasta, accession_text, accessions_to_remove, fasta_text,
                   in_state, out_file, out_closes, exc, stderr, exit_status, run, first, extractor>>

\* ReadSequence had the line been read without the iterator moving on
ReadSequenceStays ==
    /\ pc = "scan"
    /\ in_file # <<>>
    /\ LET line == StripEol(Head(in_file))
       IN  /\ ~StartsWith(line, ">")
           /\ current_header # None
           /\ current_sequence' = Append(current_sequence, line)
    /\ UNCHANGED <<pc, output_fasta, accession_text, accessions_to_remove, fasta_text,
                   in_state, in_file, out_file, out_closes, out_text, removed_count, kept_count,
                   current_header, skip_current, exc, stderr, exit_status, run, first,
                   extractor>>

\* lines 61-64 and 83-85: the next line is no header and a record is open
ReadSequence ==
    /\ pc = "scan"
    /\ in_file # <<>>
    /\ LET line == StripEol(Head(in_file))
       IN  /\ ~StartsWith(line, ">")
           /\ current_header # None
           /\ current_sequence' = Append(current_sequence, line)
    /\ in_file' = Tail(in_file)
    /\ UNCHANGED <<pc, output_fasta, accession_text, accessions_to_remove, fasta_text,
                   in_state, out_file, out_closes, out_text, removed_count, kept_count,
                   current_header, skip_current, exc, stderr, exit_status, run, first, extractor>>

\* ReadBeforeHeader had the line been appended although no record is open
ReadBeforeHeaderAppend ==
    /\ pc = "scan"
    /\ in_file # <<>>
    /\ ~StartsWith(StripEol(Head(in_file)), ">")
    /\ current_header = None
    /\ current_sequence' = Append(current_sequence, StripEol(Head(in_file)))
    /\ in_file' = Tail(in_file)
    /\ UNCHANGED <<pc, output_fasta, accession_text, accessions_to_remove, fasta_text,
                   in_state, out_file, out_closes, out_text, removed_count, kept_count,
                   current_header, skip_current, exc, stderr, exit_status, run, first, extractor>>

\* lines 61-64 and 83: the next line is no header and no record is open
ReadBeforeHeader ==
    /\ pc = "scan"
    /\ in_file # <<>>
    /\ ~StartsWith(StripEol(Head(in_file)), ">")
    /\ current_header = None
    /\ in_file' = Tail(in_file)
    /\ UNCHANGED <<pc, output_fasta, accession_text, accessions_to_remove, fasta_text,
                   in_state, out_file, out_closes, out_text, locals, exc, stderr, exit_status,
                   run, first, extractor>>

\* EndOfInput had the last record not been processed
EndOfInputNoFlush ==
    /\ pc = "scan"
    /\ in_file = <<>>
    /\ in_state' = "closed"
    /\ pc' = "finally"
    /\ UNCHANGED <<output_fasta, accession_text, accessions_to_remove, fasta_text,
                   in_file, out_file, out_closes, out_text, locals, exc, stderr, exit_status,
                   run, first, extractor>>

\* EndOfInput had the last record been written without the test that there
\* is one: None + '\n' raises a TypeError
EndOfInputUnguarded ==
    /\ pc = "scan"
    /\ in_file = <<>>
    /\ IF current_header = None
       THEN /\ exc' = "TypeError"
            /\ UNCHANGED <<out_text, kept_count, removed_count>>
       ELSE /\ out_text' = FinalizeText
            /\ kept_count' = FinalizeKept
            /\ removed_count' = FinalizeRemoved
            /\ exc' = exc
    /\ in_state' = "closed"
    /\ pc' = "finally"
    /\ UNCHANGED <<output_fasta, accession_text, accessions_to_remove, fasta_text,
                   in_file, out_file, out_closes, current_header, current_sequence,
                   skip_current, stderr, exit_status, run, first, extractor>>

\* lines 87-93: the input is exhausted, the last record is processed and
\* the with block closes in_file
EndOfInput ==
    /\ pc = "scan"
    /\ in_file = <<>>
    /\ out_text' = FinalizeText
    /\ kept_count' = FinalizeKept
    /\ removed_count' = FinalizeRemoved
    /\ in_state' = "closed"
    /\ pc' = "finally"
    /\ UNCHANGED <<output_fasta, accession_text, accessions_to_remove, fasta_text,
                   in_file, out_file, out_closes, current_header, current_sequence, skip_current,
                   exc, stderr, exit_status, run, first, extractor>>

\* lines 61, 50-51: reading a line or writing a record raises an I/O error;
\* the with block closes in_file as the exception leaves it
ScanFail ==
    /\ pc = "scan"
    /\ exc' = "io"
    /\ in_state' = "closed"
    /\ pc' = "finally"
    /\ UNCHANGED <<output_fasta, accession_text, accessions_to_remove, fasta_text,
                   in_file, out_file, out_closes, out_text, locals, stderr, exit_status, run,
                   first, extractor>>

\* Finally had the pending exception been dropped there
FinallySwallow ==
    /\ pc = "finally"
    /\ out_file' = IF output_fasta # "-" THEN "closed" ELSE out_file
    /\ out_closes' = IF output_fasta # "-" THEN out_closes + 1 ELSE out_closes
    /\ pc' = "report"
    /\ exc' = "none"
    /\ UNCHANGED <<output_fasta, accession_text, accessions_to_remove, fasta_text,
                   in_state, in_file, out_text, locals, run, first, extractor, stderr,
                   exit_status>>

\* Finally had the sink been closed on the normal path only, as without
\* the try block
FinallyCloseOnSuccess ==
    /\ pc = "finally"
    /\ out_file' = IF output_fasta # "-" /\ exc = "none" THEN "closed" ELSE out_file
    /\ out_closes' = IF output_fasta # "-" /\ exc = "none"
                      THEN out_closes + 1 ELSE out_closes
    /\ IF exc = "none"
       THEN /\ pc' = "report"
            /\ UNCHANGED <<exc, stderr, exit_status>>
       ELSE Uncaught(exc)
    /\ UNCHANGED <<output_fasta, accession_text, accessions_to_remove, fasta_text,
                   in_state, in_file, out_text, locals, run, first, extractor>>

\* Finally had the counts been printed there, on every path
FinallyReports ==
    /\ pc = "finally"
    /\ out_file' = IF output_fasta # "-" THEN "closed" ELSE out_file
    /\ out_closes' = IF output_fasta # "-" THEN out_closes + 1 ELSE out_closes
    /\ IF exc = "none"
       THEN /\ pc' = "report"
            /\ UNCHANGED <<exc, stderr, exit_status>>
       ELSE /\ pc' = "exit"
            /\ exit_status' = 1
            /\ stderr' = stderr \o <<<<"Kept", kept_count, "removed", removed_count>>,
                                     <<"Traceback", exc>>>>
            /\ exc' = "none"
    /\ UNCHANGED <<output_fasta, accession_text, accessions_to_remove, fasta_text,
                   in_state, in_file, out_text, locals, run, first, extractor>>

\* lines 95-97: the sink is closed unless it is sys.stdout; a pending
\* exception then leaves process_fasta and main
Finally ==
    /\ pc = "finally"
    /\ out_file' = IF output_fasta # "-" THEN "closed" ELSE out_file
    /\ out_closes' = IF output_fasta # "-" THEN out_closes + 1 ELSE out_closes
    /\ IF exc = "none"
       THEN /\ pc' = "report"
            /\ UNCHANGED <<exc, stderr, exit_status>>
       ELSE Uncaught(exc)
    /\ UNCHANGED <<output_fasta, accession_text, accessions_to_remove, fasta_text,
                   in_state, in_file, out_text, locals, run, first, extractor>>

\* lines 99-101, then main returns: the counts are printed, exit status 0
Report ==
    /\ pc = "report"
    /\ stderr' = Append(stderr, <<"Kept", kept_count, "removed", removed_count>>)
    /\ pc' = "exit"
    /\ exit_status' = 0
    /\ UNCHANGED <<output_fasta, accession_text, accessions_to_remove, fasta_text,
                   in_state, in_file, out_file, out_closes, out_text, locals, exc, run, first, extractor>>

\* the tool is run again with the same accession list, on the output the
\* pass just completed has written
Refilter ==
    /\ pc = "exit"
    /\ exit_status = 0
    /\ run = 1
    /\ run' = 2
    /\ first' = [text |-> out_text, kept |-> kept_count, removed |-> removed_count]
    /\ pc' = "process_fasta"
    /\ in_state' = "unopened"
    /\ in_file' = <<>>
    /\ out_file' = "unopened"
    /\ out_closes' = 0
    /\ stderr' = <<>>
    /\ exit_status' = -1
    /\ UNCHANGED <<output_fasta, accession_text, accessions_to_remove, fasta_text,
                   out_text, locals, exc, extractor>>

\* process_fasta is called again in the same process, with the same
\* exclusion set and on the same input, after a pass that completed or failed
Repeat ==
    /\ pc = "exit"
    /\ run = 1
    /\ run' = 2
    /\ first' = IF exit_status = 0
                THEN [status |-> "completed", out |-> out_text,
                      kept |-> kept_count, removed |-> removed_count]
                ELSE [status |-> "failed", out |-> <<>>,
                      kept |-> kept_count, removed |-> removed_count]
    /\ pc' = "process_fasta"
    /\ in_state' = "unopened"
    /\ in_file' = <<>>
    /\ out_file' = "unopened"
    /\ out_closes' = 0
    /\ exit_status' = -1
    /\ UNCHANGED <<output_fasta, accession_text, accessions_to_remove, fasta_text,
                   out_text, locals, exc, stderr, extractor>>

----------------------------------------------------------------------------
(* kaiju_nr_prepare.py: main, lines 120-195 *)

\* the state of remove_acc.py, which the extraction leaves alone
filter_tool == <<output_fasta, accession_text, accessions_to_remove, fasta_text,
                 in_state, in_file, out_file, out_closes, out_text, locals, exc,
                 run, first>>

\* line 163: the arguments are parsed and nothing has been read or written
InitExtract ==
    /\ pc = "extract_main"
    /\ output_fasta = "-"
    /\ accession_text = <<>>
    /\ accessions_to_remove = {}
    /\ fasta_text = <<>>
    /\ in_state = "unopened"
    /\ in_file = <<>>
    /\ out_file = "unopened"
    /\ out_closes = 0
    /\ out_text = <<>>
    /\ removed_count = 0
    /\ kept_count = 0
    /\ current_header = None
    /\ current_sequence = <<>>
    /\ skip_current = FALSE
    /\ exc = "none"
    /\ stderr = <<>>
    /\ exit_status = -1
    /\ run = 1
    /\ first = <<>>
    /\ taxon_text = <<>>
    /\ taxon_ids = None
    /\ blast = "none"
    /\ intermediate_text = <<>>
    /\ final_text = None

\* sys.exit(1) after a message on stderr
ExitWith(message) ==
    /\ stderr' = Append(stderr, message)
    /\ exit_status' = 1
    /\ pc' = "exit"

\* lines 176-178: step 1, the taxon IDs are read and their number reported
ReadTaxonIds(files) ==
    /\ pc = "extract_main"
    /\ \E text \in files :
        /\ taxon_text' = text
        /\ taxon_ids' = read_taxon_ids(text)
        /\ stderr' = Append(stderr, <<"Found", Len(SplitOn(taxon_ids', ","))>>)
    /\ pc' = "run_blastdbcmd"
    /\ UNCHANGED <<filter_tool, exit_status, blast, intermediate_text, final_text>>

\* lines 44-49: the taxon file is missing or cannot be read
ReadTaxonIdsFail ==
    /\ pc = "extract_main"
    /\ taxon_text' = None
    /\ \E e \in {"not found", "Error reading input file"} :
        ExitWith(<<"Error", e>>)
    /\ UNCHANGED <<filter_tool, taxon_ids, blast, intermediate_text, final_text>>

\* RunBlastAbsent had the error been reported without leaving
RunBlastAbsentGoesOn ==
    /\ pc = "run_blastdbcmd"
    /\ blast' = "absent"
    /\ stderr' = stderr \o <<<<"Running", taxon_ids>>, <<"Error", "blastdbcmd not found">>>>
    /\ pc' = "convert"
    /\ UNCHANGED <<filter_tool, exit_status, taxon_text, taxon_ids, intermediate_text,
                   final_text>>

\* lines 65-83: step 2, the command is run with the list and exits with 0,
\* having written the intermediate file
RunBlastOk ==
    /\ pc = "run_blastdbcmd"
    /\ blast' = "ok"
    /\ intermediate_text' \in OutFiles
    /\ stderr' = Append(stderr, <<"Running", taxon_ids>>)
    /\ pc' = "convert"
    /\ UNCHANGED <<filter_tool, exit_status, taxon_text, taxon_ids, final_text>>

\* lines 84-90: the command exits with another status, whatever it has written
RunBlastNonZero ==
    /\ pc = "run_blastdbcmd"
    /\ blast' = "nonzero"
    /\ intermediate_text' \in OutFiles
    /\ stderr' = stderr \o <<<<"Running", taxon_ids>>, <<"Error", "running blastdbcmd">>>>
    /\ exit_status' = 1
    /\ pc' = "exit"
    /\ UNCHANGED <<filter_tool, taxon_text, taxon_ids, final_text>>

\* lines 91-93: the command is not installed
RunBlastAbsent ==
    /\ pc = "run_blastdbcmd"
    /\ blast' = "absent"
    /\ stderr' = stderr \o <<<<"Running", taxon_ids>>, <<"Error", "blastdbcmd not found">>>>
    /\ exit_status' = 1
    /\ pc' = "exit"
    /\ UNCHANGED <<filter_tool, taxon_text, taxon_ids, intermediate_text, final_text>>

\* lines 192-193 and 104-113: step 3, the intermediate file is read, its
\* literal \n replaced and the result written to the final file
ConvertNewlines ==
    /\ pc = "convert"
    /\ final_text' = ReplaceLiteralNewlines(intermediate_text)
    /\ stderr' = Append(stderr, <<"Converted">>)
    /\ pc' = "done"
    /\ UNCHANGED <<filter_tool, exit_status, taxon_text, taxon_ids, blast, intermediate_text>>

\* lines 114-116: reading or writing raises; the final file is not there
\* if it could not be opened, and holds what was written of it otherwise
ConvertFail ==
    /\ pc = "convert"
    /\ LET content == ReplaceLiteralNewlines(intermediate_text)
       IN  final_text' \in {None} \cup {SubSeq(content, 1, k) : k \in 0..Len(content)}
    /\ ExitWith(<<"Error", "converting newlines">>)
    /\ UNCHANGED <<filter_tool, taxon_text, taxon_ids, blast, intermediate_text>>

\* line 195: the final path is reported and main returns
Done ==
    /\ pc = "done"
    /\ stderr' = Append(stderr, <<"Done">>)
    /\ exit_status' = 0
    /\ pc' = "exit"
    /\ UNCHANGED <<filter_tool, extractor>>

----------------------------------------------------------------------------
(* The specifications. *)

\* one run of the tool, over every input file and with every failure
Next ==
    \/ MainLoad(FilterAccFiles)
    \/ MainLoadFail
    \/ OpenOutput
    \/ OpenOutputFail
    \/ OpenInput(FastaFiles)
    \/ OpenInputFail
    \/ ReadHeader
    \/ ReadSequence
    \/ ReadBeforeHeader
    \/ EndOfInput
    \/ ScanFail
    \/ Finally
    \/ Report

Spec == Init /\ [][Next]_vars

\* a run, then a second run over the output of the first
NextRefilter ==
    \/ MainLoad(FilterAccFiles)
    \/ OpenOutput
    \/ OpenInput(IF run = 1 THEN FastaFiles ELSE {first.text})
    \/ ReadHeader
    \/ ReadSequence
    \/ ReadBeforeHeader
    \/ EndOfInput
    \/ Finally
    \/ Report
    \/ Refilter

SpecRefilter == Init /\ [][NextRefilter]_vars

\* a pass that completes or fails, then a second pass on the same input
NextRepeat ==
    \/ MainLoad(FilterAccFiles)
    \/ OpenOutput
    \/ OpenInput(IF run = 1 THEN RepeatFiles ELSE {fasta_text})
    \/ run = 1 /\ OpenInputFail
    \/ ReadHeader
    \/ ReadSequence
    \/ ReadBeforeHeader
    \/ EndOfInput
    \/ run = 1 /\ ScanFail
    \/ Finally
    \/ Report
    \/ Repeat

SpecRepeat == Init /\ [][NextRepeat]_vars

\* one run of the tool that does not stop while a statement is left to run
NextLive ==
    \/ MainLoad(FilterAccFiles)
    \/ OpenOutput
    \/ OpenInput(LiveFiles)
    \/ OpenInputFail
    \/ ReadHeader
    \/ ReadSequence
    \/ ReadBeforeHeader
    \/ EndOfInput
    \/ ScanFail
    \/ Finally
    \/ Report

SpecLive == Init /\ [][NextLive]_vars /\ WF_vars(NextLive)

\* the taxon file is read, from every taxon file
NextTaxon ==
    \/ ReadTaxonIds(TaxonFiles)
    \/ ReadTaxonIdsFail

SpecTaxon == InitExtract /\ [][NextTaxon]_vars

\* one extraction, with every failure of its three steps
NextExtract ==
    \/ ReadTaxonIds(ExtractTaxonFiles)
    \/ ReadTaxonIdsFail
    \/ RunBlastOk
    \/ RunBlastNonZero
    \/ RunBlastAbsent
    \/ ConvertNewlines
    \/ ConvertFail
    \/ Done

SpecExtract == InitExtract /\ [][NextExtract]_vars

\* a run over a file of one header line
NextHeader ==
    \/ MainLoad(HeaderAccFiles)
    \/ OpenOutput
    \/ OpenInput(HeaderFiles)
    \/ ReadHeader
    \/ EndOfInput
    \/ Finally
    \/ Report

SpecHeader == Init /\ [][NextHeader]_vars

\* the accession list is read, from every accession-list file
NextLoad ==
    \/ MainLoad(AccFiles)
    \/ MainLoadFail

SpecLoad == Init /\ [][NextLoad]_vars

----------------------------------------------------------------------------
(* What the properties speak of, read off the raw text of a file by          *)
(* character position rather than by the scan.                               *)

\* the positions at which a line of text starts
RefLineStarts(text) == {p \in 1..Len(text) : p = 1 \/ text[p - 1] = "\n"}

\* the position of the newline ending the line that holds p, one past the
\* text when there is none
RefLineEnd(text, p) ==
    CHOOSE q \in p..(Len(text) + 1) :
        /\ q = Len(text) + 1 \/ text[q] = "\n"
        /\ \A r \in p..(q - 1) : text[r] # "\n"

\* the positions at which a header line starts
RefHeaders(text) == {p \in RefLineStarts(text) : text[p] = ">"}

\* the position at which the record starting at p ends: the next header,
\* or one past the text
RefRecordEnd(text, p) ==
    CHOOSE q \in RefHeaders(text) \cup {Len(text) + 1} :
        /\ q > p
        /\ \A r \in RefHeaders(text) : r > p => q <= r

\* the members of a set of numbers, ascending
RECURSIVE Ascending(_)
Ascending(S) ==
    IF S = {} THEN <<>>
    ELSE LET m == CHOOSE x \in S : \A y \in S : x <= y
         IN  <<m>> \o Ascending(S \ {m})

NotNewline(c) == c # "\n"

\* the record whose header starts at p: its header line without the line
\* ending, and its sequence lines run together
RefRecord(text, p) ==
    [header |-> SubSeq(text, p, RefLineEnd(text, p) - 1),
     sequence |-> SelectSeq(SubSeq(text, RefLineEnd(text, p) + 1,
                                   RefRecordEnd(text, p) - 1), NotNewline)]

\* the number of sequence lines of the record whose header starts at p
RefSequenceLines(text, p) ==
    Cardinality({q \in RefLineStarts(text) : p < q /\ q < RefRecordEnd(text, p)})

\* the records of a text, in file order
RefRecords(text) ==
    LET starts == Ascending(RefHeaders(text))
    IN  [k \in 1..Len(starts) |-> RefRecord(text, starts[k])]

\* the lines of a text, in file order, without their line endings
RefLines(text) ==
    LET starts == Ascending(RefLineStarts(text))
    IN  [k \in 1..Len(starts) |->
            SubSeq(text, starts[k], RefLineEnd(text, starts[k]) - 1)]

\* the first whitespace-delimited token of a header, its marker removed
RefAccession(header) ==
    LET k == CHOOSE j \in 1..Len(header) :
                 /\ \A i \in 2..j : header[i] \notin Whitespace
                 /\ j = Len(header) \/ header[j + 1] \in Whitespace
    IN  SubSeq(header, 2, k)

\* the records of text whose accession is not in the exclusion set
RefKept(text, excluded) ==
    LET Keep(r) == RefAccession(r.header) \notin excluded
    IN  SelectSeq(RefRecords(text), Keep)

\* how often r occurs in a sequence of records
Count(records, r) == Cardinality({k \in DOMAIN records : records[k] = r})

\* a line without its surrounding whitespace: from its first to its last
\* character that is no whitespace
RefStripped(line) ==
    LET black == {i \in 1..Len(line) : line[i] \notin Whitespace}
    IN  IF black = {} THEN <<>>
        ELSE SubSeq(line, CHOOSE i \in black : \A j \in black : i <= j,
                          CHOOSE i \in black : \A j \in black : j <= i)

\* a filter pass has run to its end
Completed == pc = "report" \/ (pc = "exit" /\ exit_status = 0)

\* the records of the input of the pass and of its output
InRecords == RefRecords(fasta_text)
OutRecords == RefRecords(out_text)
Excluded(r) == RefAccession(r.header) \in accessions_to_remove

----------------------------------------------------------------------------
(* The properties. *)

\* C1: after a completed pass a record is in the output if and only if its
\* accession is not in the exclusion set: every record occurs in the output
\* as often as in the input when its accession is not excluded, and not at
\* all when it is.
C1_KeptIffNotExcluded ==
    Completed =>
        \A r \in {InRecords[k] : k \in DOMAIN InRecords}
                 \cup {OutRecords[k] : k \in DOMAIN OutRecords} :
            Count(OutRecords, r) = IF Excluded(r) THEN 0 ELSE Count(InRecords, r)

\* a completed pass that dropped a record with sequence data and kept another
C1_Witness ==
    /\ Completed
    /\ \E i, j \in DOMAIN InRecords :
        /\ Excluded(InRecords[i]) /\ InRecords[i].sequence # <<>>
        /\ ~Excluded(InRecords[j])
        /\ Count(OutRecords, InRecords[j]) > 0

\* C2: after a completed pass kept_count + removed_count is the number of
\* header lines of the input, kept_count counting the records that are not
\* excluded and removed_count those that are.
C2_CountConservation ==
    Completed =>
        /\ kept_count + removed_count = Cardinality(RefHeaders(fasta_text))
        /\ kept_count = Cardinality({k \in DOMAIN InRecords : ~Excluded(InRecords[k])})
        /\ removed_count = Cardinality({k \in DOMAIN InRecords : Excluded(InRecords[k])})

\* a completed pass over three records of which the last is removed
C2_Witness ==
    /\ Completed
    /\ Len(InRecords) = 3
    /\ Excluded(InRecords[3])
    /\ kept_count = 2

\* C3: after a completed pass the output holds exactly two lines for each
\* kept record, each line terminated: the record's header without its line
\* ending, then its sequence lines run together with nothing between them.
C3_Normalization ==
    Completed =>
        LET kept == RefKept(fasta_text, accessions_to_remove)
            lines == RefLines(out_text)
        IN  /\ Len(lines) = 2 * Len(kept)
            /\ out_text = <<>> \/ out_text[Len(out_text)] = "\n"
            /\ \A k \in DOMAIN kept :
                /\ lines[2 * k - 1] = kept[k].header
                /\ lines[2 * k] = kept[k].sequence

\* a completed pass that kept a record of two sequence lines, neither empty
C3_Witness ==
    /\ Completed
    /\ \E p \in RefHeaders(fasta_text) :
        /\ ~Excluded(RefRecord(fasta_text, p))
        /\ RefSequenceLines(fasta_text, p) = 2
        /\ Len(RefRecord(fasta_text, p).sequence) = 2

\* C4: after a completed pass the records of the output are the kept
\* records of the input in the order of the input.
C4_OrderPreserved ==
    Completed => OutRecords = RefKept(fasta_text, accessions_to_remove)

\* a completed pass that kept two records with different headers, the
\* first of them with sequence data
C4_Witness ==
    /\ Completed
    /\ Len(OutRecords) = 2
    /\ OutRecords[1].header # OutRecords[2].header
    /\ OutRecords[1].sequence # <<>>

\* C5: a pass over the output of a completed pass, with the same exclusion
\* set, removes nothing, keeps as many records as the first pass kept and
\* writes its input back character for character.
C5_RefilterIdempotent ==
    (run = 2 /\ Completed) =>
        /\ fasta_text = first.text
        /\ removed_count = 0
        /\ kept_count = first.kept
        /\ out_text = fasta_text

\* a completed second pass after a first pass that removed a record and
\* kept one with sequence data
C5_Witness ==
    /\ run = 2
    /\ Completed
    /\ first.removed > 0
    /\ \E k \in DOMAIN OutRecords : OutRecords[k].sequence # <<>>

\* the header consumed last is the only line of the input
OneHeader == current_header # None /\ RefLines(fasta_text) = <<current_header>>

\* C6: the accession of a header is its first whitespace-delimited token
\* without the marker, empty when that token is the marker alone; the record
\* is skipped, and counted as removed, exactly when the whole accession
\* equals an entry of the exclusion set, so never when the accession is
\* empty and every entry is non-empty.
C6_AccessionMatch ==
    OneHeader =>
        LET acc == RefAccession(current_header)
        IN  /\ Accession(current_header) = acc
            /\ (current_header[1] = ">" /\ (Len(current_header) = 1
                    \/ current_header[2] \in Whitespace)) => acc = <<>>
            /\ skip_current = (\E a \in accessions_to_remove : a = acc)
            /\ (acc = <<>> /\ <<>> \notin accessions_to_remove) => ~skip_current
            /\ Completed => /\ removed_count = (IF acc \in accessions_to_remove THEN 1 ELSE 0)
                            /\ kept_count = 1 - removed_count

\* a completed pass that removed a record whose header has a description
\* after the accession
C6_Witness ==
    /\ OneHeader
    /\ Completed
    /\ removed_count = 1
    /\ Len(current_header) > Len(RefAccession(current_header)) + 2

\* the part of the input the scan has consumed
Consumed == SubSeq(fasta_text, 1, Len(fasta_text) - Len(Join(in_file)))

\* C7: as long as no header line has been consumed nothing is written to
\* the output, no line is held as sequence data and both counters are 0;
\* a pass over an input without any header ends so, and the lines before
\* the first header are in no record of the output.
C7_BeforeFirstHeader ==
    /\ (pc = "scan" /\ RefHeaders(Consumed) = {}) =>
            /\ out_text = <<>>
            /\ current_sequence = <<>>
            /\ current_header = None
            /\ kept_count = 0 /\ removed_count = 0
    /\ (Completed /\ RefHeaders(fasta_text) = {}) =>
            out_text = <<>> /\ kept_count = 0 /\ removed_count = 0
    /\ (Completed /\ RefHeaders(fasta_text) # {}) =>
            LET h == CHOOSE p \in RefHeaders(fasta_text) :
                         \A q \in RefHeaders(fasta_text) : p <= q
                rest == SubSeq(fasta_text, h, Len(fasta_text))
            IN  /\ OutRecords = RefKept(rest, accessions_to_remove)
                /\ kept_count + removed_count = Len(RefRecords(rest))

\* a completed pass over an input that starts with a line of sequence
\* characters and then holds a kept record with sequence data
C7_Witness ==
    /\ Completed
    /\ fasta_text # <<>>
    /\ fasta_text[1] = "A"
    /\ kept_count = 1
    /\ OutRecords[1].sequence # <<>>

\* the lines of the accession-list file, stripped of surrounding whitespace
StrippedLines ==
    {RefStripped(RefLines(accession_text)[k]) : k \in DOMAIN RefLines(accession_text)}

\* C8: read_accessions_to_remove returns exactly the stripped lines of the
\* file that are not empty and do not begin with '#'; a file of blank and
\* comment lines only gives a set of size 0.
C8_LoaderSet ==
    pc = "process_fasta" =>
        /\ accessions_to_remove = {l \in StrippedLines : l # <<>> /\ l[1] # "#"}
        /\ (\A l \in StrippedLines : l = <<>> \/ l[1] = "#") =>
               /\ Cardinality(accessions_to_remove) = 0
               /\ stderr = <<<<"Loaded", 0>>>>

\* the list has been read from a file holding a comment line and an
\* accession with whitespace around it
C8_Witness ==
    /\ pc = "process_fasta"
    /\ accessions_to_remove # {}
    /\ \E k, m \in DOMAIN RefLines(accession_text) :
        LET c == RefLines(accession_text)[k]
            l == RefLines(accession_text)[m]
        IN  /\ c # <<>> /\ c[1] = "#"
            /\ l # RefStripped(l)
            /\ RefStripped(l) \in accessions_to_remove

\* each record as two lines: the header, then the sequence run together
RECURSIVE RefNormal(_)
RefNormal(records) ==
    IF records = <<>> THEN <<>>
    ELSE Head(records).header \o <<"\n">> \o Head(records).sequence \o <<"\n">>
         \o RefNormal(Tail(records))

\* C9: with an empty exclusion set a completed pass has removed nothing,
\* kept as many records as the input has header lines and written every
\* record of the input as two lines.
C9_EmptyExclusion ==
    (accessions_to_remove = {} /\ Completed) =>
        /\ removed_count = 0
        /\ kept_count = Cardinality(RefHeaders(fasta_text))
        /\ out_text = RefNormal(InRecords)

\* a completed pass with an empty exclusion set over three records, one
\* with an empty accession and one with a non-empty one
C9_Witness ==
    /\ accessions_to_remove = {}
    /\ Completed
    /\ kept_count = 3
    /\ \E i, j \in DOMAIN InRecords :
        /\ RefAccession(InRecords[i].header) = <<>>
        /\ RefAccession(InRecords[j].header) # <<>>

\* what main has got hold of so far
Loaded == stderr # <<>> /\ stderr[1][1] = "Loaded"
SinkAcquired == out_file # "unopened"
InputOpened == in_state # "unopened"

\* C10: a run in which the accession list or the input file could not be
\* opened for reading, or the output path not for writing, never exits
\* with status 0: it exits with status 1 and a last message on stderr that
\* names the path.
C10_FatalOpenErrors ==
    /\ exit_status = 0 => (Loaded /\ SinkAcquired /\ InputOpened)
    /\ (pc = "exit" /\ ~(Loaded /\ SinkAcquired /\ InputOpened)) =>
            /\ exit_status = 1
            /\ stderr[Len(stderr)] =
                   <<"Traceback", IF ~Loaded THEN "accession_file"
                                  ELSE IF ~SinkAcquired THEN output_fasta
                                  ELSE "input_fasta">>

\* the run has ended because the input file could not be opened, after the
\* output file had been
C10_Witness ==
    /\ pc = "exit"
    /\ exit_status = 1
    /\ Loaded
    /\ out_file = "closed"
    /\ ~InputOpened


\* C11: a run that fails because the input FASTA cannot be opened ends
\* without having created or truncated the file at the output path.
C11_NoOutputOnInputFailure ==
    (pc = "exit" /\ output_fasta # "-" /\ Loaded /\ ~InputOpened) =>
        out_file = "unopened"


\* every record of the input is excluded: there is none, as in an empty
\* input or one without a header line, or all are in the exclusion set
NothingKept == \A k \in DOMAIN InRecords : Excluded(InRecords[k])

\* C12: a run over an input of which nothing is kept raises no error of its
\* own: unless an I/O error ends it, it exits with status 0, an empty output
\* and a summary of 0 kept records, 0 removed for the empty input.
C12_EmptyResultsSucceed ==
    (pc = "exit" /\ InputOpened /\ NothingKept) =>
        \/ /\ exit_status = 0
           /\ out_text = <<>>
           /\ kept_count = 0
           /\ removed_count = Len(InRecords)
           /\ stderr[Len(stderr)] = <<"Kept", 0, "removed", Len(InRecords)>>
           /\ fasta_text = <<>> => stderr[Len(stderr)] = <<"Kept", 0, "removed", 0>>
        \/ /\ exit_status = 1
           /\ stderr[Len(stderr)] = <<"Traceback", "io">>

\* a run over an input without any header line has exited with status 0
C12_Witness ==
    /\ pc = "exit"
    /\ exit_status = 0
    /\ fasta_text # <<>>
    /\ RefHeaders(fasta_text) = {}
    /\ stderr[Len(stderr)] = <<"Kept", 0, "removed", 0>>


\* the run has left the try block of process_fasta
LeftTry == pc \in {"report", "exit"} /\ SinkAcquired

\* C13 as stated: once acquired, the sink is closed exactly once on every
\* exit path, whether it is a file or standard output.
C13_SinkClosedOnce == LeftTry => out_closes = 1

\* C13, amended: a file that process_fasta has opened as its sink is closed
\* exactly once on every exit path and never twice; standard output is
\* never closed by process_fasta.
C13_FileSinkClosedOnce ==
    /\ out_closes <= 1
    /\ LeftTry =>
           IF output_fasta = "-"
           THEN out_closes = 0 /\ out_file = "open"
           ELSE out_closes = 1 /\ out_file = "closed"

\* a run writing to a file has ended by an I/O error after it had written
\* a record
C13_Witness ==
    /\ pc = "exit"
    /\ exit_status = 1
    /\ output_fasta # "-"
    /\ InputOpened
    /\ out_text # <<>>
    /\ out_closes = 1


\* C16: at every point of the scan kept_count + removed_count is the number
\* of header lines consumed, less one for the record that is open; the open
\* record is the last header consumed and the buffer holds exactly the lines
\* consumed after it; the output holds kept_count records, the finalized
\* kept ones.  After the end of the input every record has been counted.
C16_ScanInvariant ==
    /\ pc = "scan" =>
        LET headers == RefHeaders(Consumed)
            records == RefRecords(Consumed)
            last == CHOOSE p \in headers : \A q \in headers : q <= p
            done == SubSeq(Consumed, 1, last - 1)
        IN  /\ Consumed \o Join(in_file) = fasta_text
            /\ (current_header = None) = (headers = {})
            /\ Len(RefRecords(out_text)) = kept_count
            /\ headers = {} => kept_count + removed_count = 0
            /\ headers # {} =>
                /\ kept_count + removed_count = Cardinality(headers) - 1
                /\ current_header = records[Len(records)].header
                /\ current_sequence =
                       RefLines(SubSeq(Consumed, RefLineEnd(Consumed, last) + 1,
                                       Len(Consumed)))
                /\ skip_current = Excluded(records[Len(records)])
                /\ OutRecords = RefKept(done, accessions_to_remove)
                /\ removed_count = Len(RefRecords(done)) - kept_count
    /\ Completed =>
        /\ kept_count + removed_count = Cardinality(RefHeaders(fasta_text))
        /\ Len(RefRecords(out_text)) = kept_count

\* the scan has finalized one record and holds a second one with a line
\* of sequence data
C16_Witness ==
    /\ pc = "scan"
    /\ kept_count + removed_count = 1
    /\ current_header # None
    /\ Join(current_sequence) # <<>>


\* the summaries of counts on stderr
Summaries == {k \in DOMAIN stderr : stderr[k][1] = "Kept"}

\* the summary is the last message and gives the final counts of a pass
\* whose input is exhausted and whose records are all finalized, and the
\* output sink holds the kept records and nothing else
SummaryAtEnd ==
    /\ stderr[Len(stderr)] = <<"Kept", kept_count, "removed", removed_count>>
    /\ in_file = <<>> /\ in_state = "closed"
    /\ kept_count + removed_count = Cardinality(RefHeaders(fasta_text))
    /\ out_text = RefNormal(RefKept(fasta_text, accessions_to_remove))

\* C17 as stated: one summary per successful pass and none per failed one,
\* emitted on stderr only after the last record is finalized and the output
\* sink released.
C17_SummaryAfterRelease ==
    /\ Cardinality(Summaries) = IF pc = "exit" /\ exit_status = 0 THEN 1 ELSE 0
    /\ Summaries # {} => (SummaryAtEnd /\ out_file = "closed")

\* C17, amended: one summary per successful pass and none per failed one,
\* emitted on stderr only after the last record is finalized and, when the
\* sink is a file, after it is closed; standard output is still open then.
C17_SummaryOnce ==
    /\ Cardinality(Summaries) = IF pc = "exit" /\ exit_status = 0 THEN 1 ELSE 0
    /\ Summaries # {} =>
        /\ SummaryAtEnd
        /\ out_file = IF output_fasta = "-" THEN "open" ELSE "closed"

\* a successful pass to a file that kept and removed a record has printed
\* its summary
C17_Witness ==
    /\ pc = "exit"
    /\ exit_status = 0
    /\ output_fasta # "-"
    /\ stderr[Len(stderr)] = <<"Kept", 1, "removed", 1>>


\* the second pass has completed
Repeated == run = 2 /\ Completed

\* C14: a filter pass, completed or failed, leaves the exclusion set as the
\* loader built it, and a second pass with the same set over the same input
\* writes the same output and gives the same counts as the first.
C14_ExclusionSetUnchanged ==
    /\ pc # "main" =>
        accessions_to_remove = {l \in StrippedLines : l # <<>> /\ l[1] # "#"}
    /\ (Repeated /\ first.status = "completed") =>
        /\ out_text = first.out
        /\ kept_count = first.kept
        /\ removed_count = first.removed

\* a pass that removed one record and kept another has been repeated
C14_Witness ==
    /\ Repeated
    /\ pc = "exit"
    /\ first.status = "completed"
    /\ first.removed = 1
    /\ first.kept = 1
    /\ removed_count = 1

\* C18: every call of process_fasta starts from zero counters, an empty
\* record slot and a false skip flag, so what a pass writes and counts is
\* determined by its input and exclusion set, whatever an earlier pass that
\* completed or failed has left behind.
C18_RunIndependence ==
    /\ pc = "open_in" =>
        /\ kept_count = 0 /\ removed_count = 0
        /\ current_header = None /\ current_sequence = <<>>
        /\ skip_current = FALSE
        /\ out_text = <<>>
    /\ Completed =>
        LET kept == RefKept(fasta_text, accessions_to_remove)
        IN  /\ out_text = RefNormal(kept)
            /\ kept_count = Len(kept)
            /\ removed_count = Len(InRecords) - Len(kept)

\* a pass has completed, keeping and removing a record, after an earlier
\* pass failed with a record counted and another one open
C18_Witness ==
    /\ Repeated
    /\ pc = "exit"
    /\ first.status = "failed"
    /\ first.kept = 1
    /\ kept_count = 1
    /\ removed_count = 1


\* the pass has failed
Failed == pc = "exit" /\ exit_status = 1

\* C19: while scanning, every step takes the first unread line and leaves
\* the lines after it, in file order, to be read; a completed pass has read
\* every line; and a pass that is scanning comes to its end, completed with
\* the counts reported or failed.
C19_ScanTerminates ==
    /\ [][(pc = "scan" /\ pc' = "scan") =>
            (in_file # <<>> /\ in_file' = Tail(in_file)
             /\ fasta_text' = fasta_text)]_vars
    /\ [](Completed => in_file = <<>>)
    /\ (pc = "scan" ~> ((pc = "exit" /\ exit_status = 0 /\ Summaries # {}) \/ Failed))

\* a pass over a file of three lines has completed
C19_Witness ==
    /\ pc = "exit"
    /\ exit_status = 0
    /\ Len(RefLines(fasta_text)) = 3
    /\ in_file = <<>>
    /\ kept_count = 1


\* the messages on stderr, by their first word
Messages == [k \in DOMAIN stderr |-> stderr[k][1]]

\* C15: the external command is invoked only once the taxon IDs are read,
\* and the final file is written only once the command has exited with 0;
\* a missing taxon file ends the run with status 1 and the command not
\* invoked; an absent or failing command ends it with a non-zero status and
\* no final file; a run that succeeds has gone through the three steps in
\* their order.
C15_FailFastOrdering ==
    /\ blast # "none" => (taxon_text # None /\ taxon_ids # None)
    /\ final_text # None => blast = "ok"
    /\ taxon_text = None =>
        (blast = "none" /\ pc = "exit" /\ exit_status = 1 /\ final_text = None)
    /\ blast \in {"absent", "nonzero"} =>
        (pc = "exit" /\ exit_status > 0 /\ final_text = None)
    /\ (pc = "exit" /\ exit_status = 0) =>
        (Messages = <<"Found", "Running", "Converted", "Done">>
         /\ stderr[2] = <<"Running", taxon_ids>>
         /\ final_text # None)

\* the command has exited with a non-zero status after writing a file with
\* a literal \n, for a list of two taxon IDs
C15_Witness ==
    /\ pc = "exit"
    /\ blast = "nonzero"
    /\ taxon_ids = <<"1", ",", "1">>
    /\ intermediate_text = <<">", "\\", "n">>
    /\ final_text = None
    /\ exit_status = 1


\* the first tab-delimited column of a line: what stands before its first tab
RefFirstColumn(line) ==
    LET tabs == {i \in 1..Len(line) : line[i] = "\t"}
    IN  IF tabs = {} THEN line
        ELSE SubSeq(line, 1, (CHOOSE i \in tabs : \A j \in tabs : i <= j) - 1)

\* a line that holds more than whitespace
NonBlank(line) == RefStripped(line) # <<>>

\* the first columns of the non-blank lines of the taxon file, in file
\* order, without the whitespace around them
RefTaxonColumns ==
    LET lines == SelectSeq(RefLines(taxon_text), NonBlank)
    IN  [k \in DOMAIN lines |-> RefStripped(RefFirstColumn(lines[k]))]

\* the identifiers of the list given to the external command, without the
\* whitespace around them
PassedTaxonIds ==
    LET ids == SplitOn(taxon_ids, ",")
    IN  [k \in DOMAIN ids |-> RefStripped(ids[k])]

\* C20: the list given to the external command holds, in file order and
\* joined by commas, the first tab-delimited column of every non-blank line
\* of the taxon file, an empty first column included; the values are
\* compared without the whitespace around them.
C20_TaxonListIsFirstColumn ==
    pc = "run_blastdbcmd" =>
        IF RefTaxonColumns = <<>> THEN taxon_ids = <<>>
        ELSE PassedTaxonIds = RefTaxonColumns

====
